---- MODULE Spec2Model ----
(***************************************************************************)
(* Smart Task Planner API (src/main.py, src/models.py).                    *)
(*                                                                         *)
(* A FastAPI application with two routes: POST /api/v1/plan_goal, which    *)
(* sends the goal to the Gemini model and validates the JSON it returns    *)
(* against the pydantic model TaskPlan, and GET /, a health check.         *)
(*                                                                         *)
(* JSON documents are modelled as tagged records.  Numbers are fixed-point *)
(* values counted in halves (h = 3 is 1.5), with the Python type that      *)
(* json.loads gives them (isint: int, otherwise float).  A number literal  *)
(* beyond the range of a double (1e999) is the float inf: fin is FALSE.    *)
(***************************************************************************)
EXTENDS Integers, Sequences, FiniteSets, TLC

\* ------------------------------------------------------------------ bounds

\* Longest "tasks" array the modelled LLM emits.
MaxTasks == 2
\* Number of worker execution contexts handling requests at the same time.
NumWorkers == 2

\* ------------------------------------------------------------- JSON values

JNull == [t |-> "null"]
JInt(i) == [t |-> "num", isint |-> TRUE, fin |-> TRUE, h |-> 2 * i]
JFloat(h) == [t |-> "num", isint |-> FALSE, fin |-> TRUE, h |-> h]
\* What json.loads gives for 1e999 (and for the token Infinity).
JInf == [t |-> "num", isint |-> FALSE, fin |-> FALSE, h |-> 1]
JStr(s) == [t |-> "str", s |-> s]
JList(items) == [t |-> "list", items |-> items]
JObj(fields) == [t |-> "obj", fields |-> fields]

HasKey(j, k) == k \in DOMAIN j.fields

\* A validation result: the validated value, or a pydantic ValidationError.
Ok(v) == [ok |-> TRUE, v |-> v]
Err == [ok |-> FALSE]

\* A Python float: h halves, or inf.
Float(h) == [fin |-> TRUE, h |-> h]

\* ---------------------------------------------------- pydantic validation

\* Lax-mode parsing of a string as an int: the digit strings of the sampled
\* string values.
StrAsInt(s) == IF s = "3" THEN Ok(3) ELSE Err

\* Lax-mode parsing of a string as a float, in halves.
StrAsFloat(s) ==
    IF s = "3" THEN Ok(Float(6)) ELSE IF s = "1.5" THEN Ok(Float(3)) ELSE Err

\* Mutant of ValidateInt: a float is truncated instead of rejected.
ValidateIntTruncating(j) ==
    IF j.t = "num"
    THEN (IF j.fin THEN Ok(IF j.h >= 0 THEN j.h \div 2 ELSE -((-j.h) \div 2)) ELSE Err)
    ELSE IF j.t = "str" THEN StrAsInt(j.s)
    ELSE Err

\* An int field (task_id, an element of dependencies): an int, a finite
\* float with no fractional part, or a digit string.
ValidateInt(j) ==
    IF j.t = "num" THEN (IF j.fin /\ j.h % 2 = 0 THEN Ok(j.h \div 2) ELSE Err)
    ELSE IF j.t = "str" THEN StrAsInt(j.s)
    ELSE Err

\* Mutant of ValidateFloat: a negative estimate is clamped to zero.
ValidateFloatClamped(j) ==
    IF j.t = "num" THEN Ok([fin |-> j.fin, h |-> IF j.h < 0 THEN 0 ELSE j.h])
    ELSE IF j.t = "str" THEN StrAsFloat(j.s)
    ELSE Err

\* A float field (estimated_days, total_estimated_days): any number, inf
\* included, or a numeric string.  No lower bound is declared on the field.
ValidateFloat(j) ==
    IF j.t = "num" THEN Ok([fin |-> j.fin, h |-> j.h])
    ELSE IF j.t = "str" THEN StrAsFloat(j.s)
    ELSE Err

\* Mutant of ValidateStr: a number is coerced to its string form.
ValidateStrCoercing(j) ==
    IF j.t = "str" THEN Ok(j.s)
    ELSE IF j.t = "num" THEN Ok("number")
    ELSE Err

\* A str field: only a string.
ValidateStr(j) == IF j.t = "str" THEN Ok(j.s) ELSE Err

\* dependencies: List[int].
ValidateIntList(j) ==
    IF j.t # "list" THEN Err
    ELSE IF \E i \in DOMAIN j.items : ~ValidateInt(j.items[i]).ok THEN Err
    ELSE Ok([i \in DOMAIN j.items |-> ValidateInt(j.items[i]).v])

TaskFields ==
    {"task_id", "name", "estimated_days", "suggested_deadline", "dependencies"}

\* class Task: every field is required; keys that are not fields are dropped.
ValidateTask(j) ==
    IF j.t # "obj" THEN Err
    ELSE IF ~(TaskFields \subseteq DOMAIN j.fields) THEN Err
    ELSE LET id == ValidateInt(j.fields["task_id"])
             nm == ValidateStr(j.fields["name"])
             ed == ValidateFloat(j.fields["estimated_days"])
             sd == ValidateStr(j.fields["suggested_deadline"])
             dp == ValidateIntList(j.fields["dependencies"])
         IN IF id.ok /\ nm.ok /\ ed.ok /\ sd.ok /\ dp.ok
            THEN Ok([task_id |-> id.v, name |-> nm.v, estimated_days |-> ed.v,
                     suggested_deadline |-> sd.v, dependencies |-> dp.v])
            ELSE Err

\* tasks: List[Task].
ValidateTaskList(j) ==
    IF j.t # "list" THEN Err
    ELSE IF \E i \in DOMAIN j.items : ~ValidateTask(j.items[i]).ok THEN Err
    ELSE Ok([i \in DOMAIN j.items |-> ValidateTask(j.items[i]).v])

PlanFields == {"goal_title", "total_estimated_days", "tasks"}

\* TaskPlan.model_validate(json_output).
ModelValidate(j) ==
    IF j.t # "obj" THEN Err
    ELSE IF ~(PlanFields \subseteq DOMAIN j.fields) THEN Err
    ELSE LET gt == ValidateStr(j.fields["goal_title"])
             td == ValidateFloat(j.fields["total_estimated_days"])
             ts == ValidateTaskList(j.fields["tasks"])
         IN IF gt.ok /\ td.ok /\ ts.ok
            THEN Ok([goal_title |-> gt.v, total_estimated_days |-> td.v,
                     tasks |-> ts.v])
            ELSE Err

\* ----------------------------------------------------------- serialisation

\* A float of the response body; a float that is not finite has no JSON
\* form and is written as null.
SerializeFloat(x) == IF x.fin THEN JFloat(x.h) ELSE JNull

\* A Task of the response body: ints as JSON integers, floats as JSON floats.
SerializeTask(task) ==
    JObj([k \in TaskFields |->
        CASE k = "task_id" -> JInt(task.task_id)
          [] k = "name" -> JStr(task.name)
          [] k = "estimated_days" -> SerializeFloat(task.estimated_days)
          [] k = "suggested_deadline" -> JStr(task.suggested_deadline)
          [] OTHER -> JList([i \in DOMAIN task.dependencies |->
                                JInt(task.dependencies[i])])])

\* The plan holds a float that is not finite.
HasNonFinite(plan) ==
    \/ ~plan.total_estimated_days.fin
    \/ \E i \in DOMAIN plan.tasks : ~plan.tasks[i].estimated_days.fin

\* The response body FastAPI writes for the returned TaskPlan.
SerializePlan(plan) ==
    JObj([k \in PlanFields |->
        CASE k = "goal_title" -> JStr(plan.goal_title)
          [] k = "total_estimated_days" -> SerializeFloat(plan.total_estimated_days)
          [] OTHER -> JList([i \in DOMAIN plan.tasks |->
                                SerializeTask(plan.tasks[i])])])

\* -------------------------------------------------- exceptions, responses

\* The detail of the HTTPException get_gemini_client raises.
ConfigDetail ==
    <<"Server Error: GEMINI_API_KEY not configured. Check the .env file.">>

\* The prefix of the detail the except clause of generate_task_plan builds.
GenericPrefix ==
    "Error generating plan: The AI failed to produce a valid structure or API failed. Details: "

\* Type names of the exceptions the try block can raise: the SDK's APIError
\* subclasses, a transport error, and those of json.loads and model_validate.
APIErrorNames == {"ClientError", "ServerError"}
ExceptionNames ==
    APIErrorNames \cup {"ConnectError", "JSONDecodeError", "TypeError", "ValidationError"}

NoResp == [status |-> 0, kind |-> "none", detail |-> <<>>, body |-> JNull]

\* What FastAPI sends for a raised HTTPException: {"detail": detail}.
HTTPException(status_code, detail) ==
    [status |-> status_code, kind |-> "detail", detail |-> detail, body |-> JNull]

\* What the server sends for an exception no handler catches: the plain
\* text "Internal Server Error".
ServerCrash == [status |-> 500, kind |-> "crash", detail |-> <<>>, body |-> JNull]

\* What FastAPI sends when the request body fails validation.
RequestValidationError ==
    [status |-> 422, kind |-> "validation", detail |-> <<>>, body |-> JNull]

\* What FastAPI sends for the TaskPlan the handler returns (response_model=
\* TaskPlan).  For a plan with a float that is not finite the installed
\* framework either writes null, or fails to encode the body ("Out of range
\* float values are not JSON compliant") after the handler has returned,
\* where no except clause of the application is in force.
PlanResponse(plan, mode) ==
    IF HasNonFinite(plan) /\ mode = "raise" THEN ServerCrash
    ELSE [status |-> 200, kind |-> "plan", detail |-> <<>>, body |-> SerializePlan(plan)]

\* except (genai.errors.APIError, json.JSONDecodeError, Exception): the
\* catch-all makes the clause catch every exception of the try block.
Catches(exc) == exc \in ExceptionNames

\* Mutant of ExceptHandler: the message of the exception is appended too.
ExceptHandlerWithMessage(exc) ==
    HTTPException(500, <<GenericPrefix, exc, "message">>)

\* The except clause: a 500 whose detail ends with type(e).__name__.
ExceptHandler(exc) ==
    IF Catches(exc) THEN HTTPException(500, <<GenericPrefix, exc>>)
    ELSE ServerCrash

\* json.loads(response.text): the document, or the exception raised.
JsonLoads(text) ==
    CASE text.k = "json" -> [ok |-> TRUE, v |-> text.doc, exc |-> ""]
      [] text.k = "none" -> [ok |-> FALSE, v |-> JNull, exc |-> "TypeError"]
      [] OTHER -> [ok |-> FALSE, v |-> JNull, exc |-> "JSONDecodeError"]

\* Lines 80-92 of generate_task_plan and the endpoint's return: the response
\* that follows from the text the model returned.
ParseAndValidateResult(text, mode) ==
    LET loaded == JsonLoads(text)
    IN IF ~loaded.ok THEN ExceptHandler(loaded.exc)
       ELSE LET plan == ModelValidate(loaded.v)
            IN IF plan.ok THEN PlanResponse(plan.v, mode)
               ELSE ExceptHandler("ValidationError")

\* The payload of the health check.
HealthPayload ==
    JObj([k \in {"status", "service"} |->
        IF k = "status" THEN JStr("ok") ELSE JStr("Smart Task Planner API")])

\* ------------------------------------------------------ environment, input

\* os.getenv("GEMINI_API_KEY"): unset (None), set but empty, or a key.
EnvValues == {"None", "", "AIza-key"}

\* Mutant of KeyMissing: only an unset variable counts as missing.
KeyMissingIsNone(key) == key = "None"

\* if not GEMINI_API_KEY
KeyMissing(key) == key \in {"None", ""}

Goals == {"Launch a product in 2 weeks", ""}

\* Request bodies: with a string goal_text (and possibly another key), and
\* without one.
GoodBodies ==
    {JObj([k \in {"goal_text"} |-> JStr(g)]) : g \in Goals}
    \cup {JObj([k \in {"goal_text", "lang"} |-> JStr("Launch a product in 2 weeks")])}
BadBodies ==
    {JObj(<<>>), JObj([k \in {"goal_text"} |-> JInt(5)]),
     JObj([k \in {"goal_text"} |-> JNull]), JObj([k \in {"goal"} |-> JStr("x")]),
     JList(<<JStr("Launch a product in 2 weeks")>>), JStr("goal_text")}
Bodies == GoodBodies \cup BadBodies

\* The bodies used when several requests run concurrently.
BodiesConc ==
    {JObj([k \in {"goal_text"} |-> JStr(g)]) : g \in Goals} \cup {JObj(<<>>)}

\* class GoalInput: goal_text is a required str.
ValidateGoalInput(b) ==
    IF b.t # "obj" THEN Err
    ELSE IF ~HasKey(b, "goal_text") THEN Err
    ELSE ValidateStr(b.fields["goal_text"])

\* The user prompt built from the goal.
UserPrompt(goal) ==
    <<"Break down this goal into actionable tasks: '", goal,
      "'. The total timeline implied by the goal is the constraint for the total_estimated_days.">>

\* --------------------------------------------------- what the LLM returns

\* Values of every JSON type, used where the schema wants another one.
Scalars ==
    {JNull, JInt(1), JInt(-1), JFloat(3), JFloat(4), JInf, JStr("Plan"), JStr("3"),
     JStr("1.5"), JList(<<>>), JList(<<JInt(1)>>), JList(<<JStr("3")>>),
     JObj(<<>>)}

TaskOf(id, nm, ed, sd, dp) ==
    JObj([k \in TaskFields |->
        CASE k = "task_id" -> id
          [] k = "name" -> nm
          [] k = "estimated_days" -> ed
          [] k = "suggested_deadline" -> sd
          [] OTHER -> dp])

\* The task of the documented example.
BaseTask == TaskOf(JInt(1), JStr("Plan"), JInt(2), JStr("Day 2"), JList(<<>>))

\* Tasks that conform to the schema.
GoodTasks ==
    {TaskOf(JInt(1), JStr("Plan"), ed, JStr("Day 2"), JList(<<>>)) :
        ed \in {JInt(2), JFloat(3), JInt(-1), JInf}}
    \cup {TaskOf(JInt(3), JStr("Plan"), ed, JStr("Day 2"), JList(<<JInt(2), JInt(1)>>)) :
        ed \in {JInt(2), JFloat(3), JInt(-1), JInf}}

\* The base task with one field dropped or given a value of any type, and
\* with a key that is not a field.
OddTasks ==
    {JObj([k \in TaskFields \ {f} |-> BaseTask.fields[k]]) : f \in TaskFields}
    \cup {JObj([BaseTask.fields EXCEPT ![f] = v]) : f \in TaskFields, v \in Scalars}
    \cup {JObj([k \in TaskFields \cup {"notes"} |->
                IF k = "notes" THEN JStr("Plan") ELSE BaseTask.fields[k]])}

\* "tasks" arrays: of conforming tasks, and with one odd task among base tasks.
TaskLists ==
    UNION {[1..n -> GoodTasks] : n \in 0..MaxTasks}
    \cup {[i \in 1..n |-> IF i = p THEN b ELSE BaseTask] :
            n \in 1..MaxTasks, p \in 1..MaxTasks, b \in OddTasks}

PlanOf(gt, td, ts) ==
    JObj([k \in PlanFields |->
        CASE k = "goal_title" -> gt
          [] k = "total_estimated_days" -> td
          [] OTHER -> ts])

BasePlan == PlanOf(JStr("Launch Product"), JInt(14), JList(<<BaseTask>>))

\* JSON documents the model may return: plans over the task arrays, the base
\* plan with one field dropped or given a value of any type, and documents
\* that are not objects.
Documents ==
    {PlanOf(JStr("Launch Product"), td, JList(ts)) :
        td \in {JInt(14), JFloat(3)}, ts \in TaskLists}
    \cup {JObj([k \in PlanFields \ {f} |-> BasePlan.fields[k]]) : f \in PlanFields}
    \cup {JObj([BasePlan.fields EXCEPT ![f] = v]) : f \in PlanFields, v \in Scalars}
    \cup Scalars

Raises(exc) == [kind |-> "raise", exc |-> exc, text |-> [k |-> "none"]]
Returns(text) == [kind |-> "text", exc |-> "", text |-> text]
NoReply == [kind |-> "nocall", exc |-> "", text |-> [k |-> "none"]]

\* Outcomes of generate_content that are not a JSON document: an exception,
\* a response without text, text that is not JSON.
FailingReplies ==
    {Raises(e) : e \in APIErrorNames \cup {"ConnectError"}}
    \cup {Returns([k |-> "none"]), Returns([k |-> "garbage"])}

\* Every outcome of generate_content.
Replies == FailingReplies \cup {Returns([k |-> "json", doc |-> d]) : d \in Documents}

\* The outcomes used when several requests run concurrently.
RepliesConc ==
    FailingReplies
    \cup {Returns([k |-> "json", doc |-> d]) :
            d \in {BasePlan, PlanOf(JStr("Launch Product"), JInf, JList(<<>>)),
                   JObj(<<>>)}}

\* ------------------------------------------------------------------ state

VARIABLES
    env,      \* the value of GEMINI_API_KEY in the process environment
    nonfinite,\* how the installed framework encodes a float that is not finite
    pc,       \* per worker: where the request it handles stands
    route,    \* per worker: the route of the request, "none" when idle
    body,     \* per worker: the request body
    cred,     \* per worker: what os.getenv returned, "unread" before the call
    client,   \* per worker: the client handle it constructed
    prompt,   \* per worker: the contents passed to generate_content
    calls,    \* per worker: generate_content calls made for the request
    reply,    \* per worker: what generate_content raised or returned
    resp      \* per worker: the HTTP response

vars == <<env, nonfinite, pc, route, body, cred, client, prompt, calls, reply, resp>>

Workers == DOMAIN pc

NoClient == [id |-> 0, api_key |-> ""]

\* Mutant of NewClient: one module-level client shared by every request.
SharedClient(key) == [id |-> 1, api_key |-> key]

\* genai.Client(api_key=GEMINI_API_KEY): a new object on every call.
NewClient(key) ==
    [id |-> CHOOSE i \in 1..Cardinality(Workers) :
                /\ \A w \in Workers : client[w].id # i
                /\ \A j \in 1..(i - 1) : \E w \in Workers : client[w].id = j,
     api_key |-> key]

InitOn(ws) ==
    /\ env \in EnvValues
    /\ nonfinite \in {"raise", "null"}
    /\ pc = [w \in ws |-> "idle"]
    /\ route = [w \in ws |-> "none"]
    /\ body = [w \in ws |-> JNull]
    /\ cred = [w \in ws |-> "unread"]
    /\ client = [w \in ws |-> NoClient]
    /\ prompt = [w \in ws |-> <<>>]
    /\ calls = [w \in ws |-> 0]
    /\ reply = [w \in ws |-> NoReply]
    /\ resp = [w \in ws |-> NoResp]

\* ---------------------------------------------------------------- actions

\* POST /api/v1/plan_goal arrives: FastAPI validates the body as GoalInput
\* and either calls the handler or answers 422 itself.
PostPlanGoal(w, b) ==
    /\ pc[w] = "idle"
    /\ route' = [route EXCEPT ![w] = "plan_goal"]
    /\ body' = [body EXCEPT ![w] = b]
    /\ IF ValidateGoalInput(b).ok
       THEN /\ pc' = [pc EXCEPT ![w] = "handler"]
            /\ resp' = resp
       ELSE /\ pc' = [pc EXCEPT ![w] = "responded"]
            /\ resp' = [resp EXCEPT ![w] = RequestValidationError]
    /\ UNCHANGED <<env, nonfinite, cred, client, prompt, calls, reply>>

\* get_gemini_client, called first by generate_task_plan: the HTTPException
\* of a missing key is re-raised to FastAPI.
GetGeminiClient(w) ==
    /\ pc[w] = "handler"
    /\ cred' = [cred EXCEPT ![w] = env]
    /\ IF KeyMissing(env)
       THEN /\ resp' = [resp EXCEPT ![w] = HTTPException(500, ConfigDetail)]
            /\ pc' = [pc EXCEPT ![w] = "responded"]
            /\ client' = client
       ELSE /\ client' = [client EXCEPT ![w] = NewClient(env)]
            /\ pc' = [pc EXCEPT ![w] = "client"]
            /\ resp' = resp
    /\ UNCHANGED <<env, nonfinite, route, body, prompt, calls, reply>>

\* Mutant of AfterCall: a failed call is tried again.
AfterCallRetry(r) == IF r.kind = "raise" THEN "client" ELSE "called"

\* Where the request stands after generate_content: an exception goes to
\* the except clause, which raises the 500.
AfterCall(r) == IF r.kind = "raise" THEN "responded" ELSE "called"

\* client.models.generate_content(...): the outbound call, which raises or
\* returns a response.
GenerateContent(w, r) ==
    /\ pc[w] = "client"
    /\ prompt' = [prompt EXCEPT ![w] = UserPrompt(ValidateGoalInput(body[w]).v)]
    /\ calls' = [calls EXCEPT ![w] = calls[w] + 1]
    /\ reply' = [reply EXCEPT ![w] = r]
    /\ pc' = [pc EXCEPT ![w] = AfterCall(r)]
    /\ resp' = IF AfterCall(r) = "responded"
               THEN [resp EXCEPT ![w] = ExceptHandler(r.exc)]
               ELSE resp
    /\ UNCHANGED <<env, nonfinite, route, body, cred, client>>

\* json.loads, TaskPlan.model_validate, and the return through the endpoint.
ParseAndValidate(w) ==
    /\ pc[w] = "called"
    /\ resp' = [resp EXCEPT ![w] = ParseAndValidateResult(reply[w].text, nonfinite)]
    /\ pc' = [pc EXCEPT ![w] = "responded"]
    /\ UNCHANGED <<env, nonfinite, route, body, cred, client, prompt, calls, reply>>

\* Mutant of ReadRootResponse: the health check reports the configuration.
ReadRootChecksKey ==
    IF KeyMissing(env) THEN HTTPException(500, ConfigDetail)
    ELSE [status |-> 200, kind |-> "health", detail |-> <<>>, body |-> HealthPayload]

\* What read_root returns.
ReadRootResponse ==
    [status |-> 200, kind |-> "health", detail |-> <<>>, body |-> HealthPayload]

\* GET /
ReadRoot(w) ==
    /\ pc[w] = "idle"
    /\ route' = [route EXCEPT ![w] = "root"]
    /\ resp' = [resp EXCEPT ![w] = ReadRootResponse]
    /\ pc' = [pc EXCEPT ![w] = "responded"]
    /\ UNCHANGED <<env, nonfinite, body, cred, client, prompt, calls, reply>>

\* The response is sent; the request's objects are dropped and the worker
\* is free for the next request.
Deliver(w) ==
    /\ pc[w] = "responded"
    /\ pc' = [pc EXCEPT ![w] = "idle"]
    /\ route' = [route EXCEPT ![w] = "none"]
    /\ body' = [body EXCEPT ![w] = JNull]
    /\ cred' = [cred EXCEPT ![w] = "unread"]
    /\ client' = [client EXCEPT ![w] = NoClient]
    /\ prompt' = [prompt EXCEPT ![w] = <<>>]
    /\ calls' = [calls EXCEPT ![w] = 0]
    /\ reply' = [reply EXCEPT ![w] = NoReply]
    /\ resp' = [resp EXCEPT ![w] = NoResp]
    /\ UNCHANGED <<env, nonfinite>>

\* One request at a time, with every outcome of the LLM call.
Init == InitOn({1})

Next ==
    \/ \E w \in Workers, b \in Bodies : PostPlanGoal(w, b)
    \/ \E w \in Workers : GetGeminiClient(w)
    \/ \E w \in Workers, r \in Replies : GenerateContent(w, r)
    \/ \E w \in Workers : ParseAndValidate(w)
    \/ \E w \in Workers : ReadRoot(w)
    \/ \E w \in Workers : Deliver(w)

Spec == Init /\ [][Next]_vars

\* NumWorkers requests handled concurrently, in any interleaving.
InitConc == InitOn(1..NumWorkers)

NextConc ==
    \/ \E w \in Workers, b \in BodiesConc : PostPlanGoal(w, b)
    \/ \E w \in Workers : GetGeminiClient(w)
    \/ \E w \in Workers, r \in RepliesConc : GenerateContent(w, r)
    \/ \E w \in Workers : ParseAndValidate(w)
    \/ \E w \in Workers : ReadRoot(w)
    \/ \E w \in Workers : Deliver(w)

SpecConc == InitConc /\ [][NextConc]_vars

\* ------------------------------------------------ vocabulary of the claims

\* The JSON number j is integer-valued / the numbers j and k are equal.
IsNum(j) == j.t = "num"
IsIntNum(j) == j.t = "num" /\ j.fin /\ j.h % 2 = 0
IsStr(j) == j.t = "str"
SameNum(j, k) == j.t = "num" /\ k.t = "num" /\ j.fin = k.fin /\ j.h = k.h

\* j conforms to the Task schema: every required field present and of the
\* declared JSON type.
ConformsTask(j) ==
    /\ j.t = "obj"
    /\ TaskFields \subseteq DOMAIN j.fields
    /\ IsIntNum(j.fields["task_id"])
    /\ IsStr(j.fields["name"])
    /\ IsNum(j.fields["estimated_days"])
    /\ IsStr(j.fields["suggested_deadline"])
    /\ j.fields["dependencies"].t = "list"
    /\ \A i \in DOMAIN j.fields["dependencies"].items :
          IsIntNum(j.fields["dependencies"].items[i])

\* j conforms to the TaskPlan schema.
ConformsPlan(j) ==
    /\ j.t = "obj"
    /\ PlanFields \subseteq DOMAIN j.fields
    /\ IsStr(j.fields["goal_title"])
    /\ IsNum(j.fields["total_estimated_days"])
    /\ j.fields["tasks"].t = "list"
    /\ \A i \in DOMAIN j.fields["tasks"].items :
          ConformsTask(j.fields["tasks"].items[i])

\* The required fields of task a equal those of task b.
SameTask(a, b) ==
    /\ SameNum(a.fields["task_id"], b.fields["task_id"])
    /\ a.fields["name"] = b.fields["name"]
    /\ SameNum(a.fields["estimated_days"], b.fields["estimated_days"])
    /\ a.fields["suggested_deadline"] = b.fields["suggested_deadline"]
    /\ Len(a.fields["dependencies"].items) = Len(b.fields["dependencies"].items)
    /\ \A i \in DOMAIN a.fields["dependencies"].items :
          SameNum(a.fields["dependencies"].items[i],
                  b.fields["dependencies"].items[i])

\* The required fields of plan a equal those of plan b, tasks in order.
SamePlan(a, b) ==
    /\ a.fields["goal_title"] = b.fields["goal_title"]
    /\ SameNum(a.fields["total_estimated_days"], b.fields["total_estimated_days"])
    /\ Len(a.fields["tasks"].items) = Len(b.fields["tasks"].items)
    /\ \A i \in DOMAIN a.fields["tasks"].items :
          SameTask(a.fields["tasks"].items[i], b.fields["tasks"].items[i])

\* A value lax validation takes for an int, a float field.
LaxInt(j) == IsIntNum(j) \/ (j.t = "str" /\ j.s = "3")
LaxFloat(j) == IsNum(j) \/ (j.t = "str" /\ j.s \in {"3", "1.5"})

\* j has every required field of a Task, each of its declared type or of one
\* lax validation converts to it.
AcceptableTask(j) ==
    /\ j.t = "obj"
    /\ TaskFields \subseteq DOMAIN j.fields
    /\ LaxInt(j.fields["task_id"])
    /\ IsStr(j.fields["name"])
    /\ LaxFloat(j.fields["estimated_days"])
    /\ IsStr(j.fields["suggested_deadline"])
    /\ j.fields["dependencies"].t = "list"
    /\ \A i \in DOMAIN j.fields["dependencies"].items :
          LaxInt(j.fields["dependencies"].items[i])

\* The same for a TaskPlan.
AcceptablePlan(j) ==
    /\ j.t = "obj"
    /\ PlanFields \subseteq DOMAIN j.fields
    /\ IsStr(j.fields["goal_title"])
    /\ LaxFloat(j.fields["total_estimated_days"])
    /\ j.fields["tasks"].t = "list"
    /\ \A i \in DOMAIN j.fields["tasks"].items :
          AcceptableTask(j.fields["tasks"].items[i])

\* The body b is an object with a string goal_text.
HasGoalText(b) ==
    b.t = "obj" /\ "goal_text" \in DOMAIN b.fields /\ b.fields["goal_text"].t = "str"

\* Worker w has answered a plan_goal request.
PlanDone(w) == pc[w] = "responded" /\ route[w] = "plan_goal"

\* The model returned the JSON document of reply[w] to worker w.
GotDocument(w) == reply[w].kind = "text" /\ reply[w].text.k = "json"

\* A 500 with a {"detail": string} body.
IsDetail500(r) == r.status = 500 /\ r.kind = "detail" /\ Len(r.detail) > 0

\* -------------------------------------------------------------------- C1

\* C1 as stated: a plan_goal request with a string goal_text ends with 200 carrying a
\* TaskPlan or with 500 carrying a detail, whatever the environment and the
\* LLM do; no other status and no unhandled exception.
C1_TwoOutcomes ==
    \A w \in Workers :
        (PlanDone(w) /\ HasGoalText(body[w])) =>
            \/ resp[w].status = 200 /\ resp[w].kind = "plan" /\ ConformsPlan(resp[w].body)
            \/ IsDetail500(resp[w])

\* -------------------------------------------------------------------- C2

\* C2: with GEMINI_API_KEY missing the request ends with the 500 of the
\* configuration message, and a client is constructed or a call made only
\* after the key was read and found present.
C2_KeyCheckedFirst ==
    \A w \in Workers :
        /\ (client[w] # NoClient \/ calls[w] > 0) => cred[w] \notin {"unread", "None", ""}
        /\ (PlanDone(w) /\ cred[w] \in {"None", ""}) =>
              /\ resp[w] = HTTPException(500, ConfigDetail)
              /\ client[w] = NoClient
              /\ calls[w] = 0
              /\ reply[w] = NoReply

\* C2 witness: a request answered while the key was set but empty.
C2_Witness ==
    \E w \in Workers : PlanDone(w) /\ cred[w] = "" /\ resp[w].status = 500

\* -------------------------------------------------------------------- C3

\* C3 as stated: with the key present and a schema-conforming document returned, the
\* response is 200 and every required field of its body equals the
\* document's, the tasks in the same order.
C3_RoundTrip ==
    \A w \in Workers :
        (PlanDone(w) /\ GotDocument(w) /\ ConformsPlan(reply[w].text.doc)) =>
            /\ resp[w].status = 200
            /\ resp[w].kind = "plan"
            /\ SamePlan(resp[w].body, reply[w].text.doc)

\* -------------------------------------------------------------------- C4

\* C4: text that is not JSON ends with a 500 whose detail is the generic
\* message followed by the exception's type name only, never the
\* configuration message.
C4_NonJsonGeneric ==
    \A w \in Workers :
        (PlanDone(w) /\ reply[w].kind = "text" /\ reply[w].text.k # "json") =>
            /\ resp[w].status = 500
            /\ resp[w].kind = "detail"
            /\ resp[w].detail =
                  <<GenericPrefix,
                    IF reply[w].text.k = "garbage" THEN "JSONDecodeError" ELSE "TypeError">>
            /\ resp[w].detail # ConfigDetail

\* C4 witness: text that is not JSON has been answered.
C4_Witness ==
    \E w \in Workers :
        PlanDone(w) /\ reply[w].kind = "text" /\ reply[w].text.k = "garbage"
        /\ resp[w].status = 500

\* -------------------------------------------------------------------- C5

\* C5 as stated: a document that does not conform to the schema (a required
\* field absent or of the wrong type) ends with 500.
C5_NonConforming500 ==
    \A w \in Workers :
        (PlanDone(w) /\ GotDocument(w) /\ ~ConformsPlan(reply[w].text.doc)) =>
            resp[w].status = 500

\* C5 amended: a document with a required field absent, or of a type that
\* lax validation does not convert to the declared one, ends with the 500
\* of a ValidationError, never 200 and never a 4xx (a field of a convertible
\* type, such as a numeric string for a number, does not make the document
\* fail).
C5_Unacceptable500 ==
    \A w \in Workers :
        (PlanDone(w) /\ GotDocument(w) /\ ~AcceptablePlan(reply[w].text.doc)) =>
            /\ resp[w] = HTTPException(500, <<GenericPrefix, "ValidationError">>)
            /\ resp[w].status \notin 400..499
            /\ resp[w].status # 200

\* C5 witness: a document without "tasks" has been answered with a 500.
C5_Witness ==
    \E w \in Workers :
        /\ PlanDone(w) /\ GotDocument(w)
        /\ reply[w].text.doc.t = "obj"
        /\ "tasks" \notin DOMAIN reply[w].text.doc.fields
        /\ "goal_title" \in DOMAIN reply[w].text.doc.fields
        /\ resp[w].status = 500

\* -------------------------------------------------------------------- C7

\* C7 as stated: every task of a plan returned with 200 has
\* estimated_days >= 0 (no estimated_days is a negative number).
C7_NonNegative ==
    \A w \in Workers :
        (PlanDone(w) /\ resp[w].status = 200) =>
            \A i \in DOMAIN resp[w].body.fields["tasks"].items :
                LET out == resp[w].body.fields["tasks"].items[i].fields["estimated_days"]
                IN IsNum(out) => out.h >= 0

\* C7 amended: every task of a plan returned with 200 whose estimated_days
\* the LLM gave as a finite number has that number as estimated_days, a
\* negative one included: no lower bound is enforced.
C7_EstimateAsGiven ==
    \A w \in Workers :
        (PlanDone(w) /\ resp[w].status = 200) =>
            /\ GotDocument(w)
            /\ \A i \in DOMAIN resp[w].body.fields["tasks"].items :
                LET out == resp[w].body.fields["tasks"].items[i].fields["estimated_days"]
                    given == reply[w].text.doc.fields["tasks"].items[i].fields["estimated_days"]
                IN (IsNum(given) /\ given.fin) =>
                      IsNum(out) /\ out.fin /\ out.h = given.h

\* C7 witness: a plan with a negative estimate has been returned with 200.
C7_Witness ==
    \E w \in Workers :
        /\ PlanDone(w) /\ resp[w].status = 200
        /\ \E i \in DOMAIN resp[w].body.fields["tasks"].items :
              resp[w].body.fields["tasks"].items[i].fields["estimated_days"] = JFloat(-2)

\* -------------------------------------------------------------------- C8

\* C8: generate_content is called at most once per request; after an API
\* failure, a non-JSON response or a schema-invalid one, the request is
\* answered with a 500 that carries no plan.
C8_OneCallNoPartial ==
    \A w \in Workers :
        /\ calls[w] <= 1
        /\ (PlanDone(w) /\ calls[w] = 1
              /\ (reply[w].kind = "raise" \/ ~GotDocument(w)
                    \/ ~AcceptablePlan(reply[w].text.doc))) =>
              /\ resp[w].status = 500
              /\ resp[w].body = JNull
        /\ (resp[w].status = 500) => resp[w].body = JNull

\* C8 witness: a request whose call raised has been answered after one call.
C8_Witness ==
    \E w \in Workers :
        PlanDone(w) /\ reply[w].kind = "raise" /\ calls[w] = 1 /\ resp[w].status = 500

\* ------------------------------------------------------------------- C10

\* C10: a plan_goal request whose body holds no string goal_text is
\* rejected before the handler runs: the key is not read, no client is
\* constructed, the LLM is not called, and the response is not a 200.
C10_BadBodyRejected ==
    \A w \in Workers :
        (route[w] = "plan_goal" /\ ~HasGoalText(body[w])) =>
            /\ pc[w] = "responded"
            /\ resp[w].status # 200
            /\ resp[w].status # 0
            /\ cred[w] = "unread"
            /\ client[w] = NoClient
            /\ calls[w] = 0

\* C10 witness: a body whose goal_text is a number has been rejected.
C10_Witness ==
    \E w \in Workers :
        /\ route[w] = "plan_goal" /\ pc[w] = "responded"
        /\ body[w] = JObj([k \in {"goal_text"} |-> JInt(5)])
        /\ resp[w].status = 422

\* -------------------------------------------------------------------- C6

\* C6: GET / is answered with 200 and the fixed payload in every state,
\* whatever the key and the plan_goal requests of the other workers, and
\* handling it reads no key and calls no LLM.
C6_HealthAlwaysOk ==
    \A w \in Workers :
        route[w] = "root" =>
            /\ pc[w] = "responded"
            /\ resp[w].status = 200
            /\ resp[w].body = HealthPayload
            /\ cred[w] = "unread"
            /\ client[w] = NoClient
            /\ calls[w] = 0

\* C6 witness: the health check answered with the key missing while another
\* worker's plan_goal request has failed.
C6_Witness ==
    \E w, v \in Workers :
        /\ route[w] = "root" /\ resp[w].status = 200 /\ env = "None"
        /\ PlanDone(v) /\ resp[v].status = 500

\* -------------------------------------------------------------------- C9

\* C9: of requests handled concurrently, each has its own client handle and
\* makes one call of its own, and two requests with the same goal_text, the
\* same key and the same LLM reply are answered alike whatever the others do.
C9_Independent ==
    \A w, v \in Workers :
        /\ calls[w] <= 1
        /\ (pc[w] \in {"client", "called"}) => client[w] # NoClient
        /\ (w # v /\ client[w] # NoClient) => client[w].id # client[v].id
        /\ (PlanDone(w) /\ PlanDone(v) /\ HasGoalText(body[w]) /\ HasGoalText(body[v])
              /\ body[w].fields["goal_text"] = body[v].fields["goal_text"]
              /\ cred[w] = cred[v] /\ reply[w] = reply[v]) =>
              resp[w] = resp[v]

\* C9 witness: two requests hold a client handle each at the same time, one
\* of them already answered.
C9_Witness ==
    \E w, v \in Workers :
        /\ w # v
        /\ PlanDone(w) /\ client[w] # NoClient /\ calls[w] = 1
        /\ pc[v] = "called" /\ client[v] # NoClient

====
